---- MODULE Spec2Model ----
(***************************************************************************)
(* Model of tracktotrip/track.py: class Track.                             *)
(*                                                                         *)
(* A Track owns a name, a list of segments and the flag preprocessed.      *)
(* The model holds one track ("self") that the operations act on and a     *)
(* second, read-only track ("other") that similarity and merge_and_fit     *)
(* receive as argument.  Python sequences are 0-based; the model keeps     *)
(* Python's indices as values and converts on access.                      *)
(***************************************************************************)
EXTENDS Integers, Sequences, FiniteSets, TLC

VARIABLES
    input,          \* the list handed to Track(name, segments) for self
    name,           \* self.name
    segments,       \* self.segments
    preprocessed,   \* self.preprocessed
    other,          \* track.segments of the argument track
    hist,           \* the mutating Track methods called on self so far
    ret             \* outcome of the last method call

vars == <<input, name, segments, preprocessed, other, hist, ret>>

(***************************************************************************)
(* Bounds                                                                  *)
(***************************************************************************)
MaxLen == 2     \* longest segment list handed to a constructor
MaxOps == 2     \* longest sequence of mutating method calls on self

(***************************************************************************)
(* Segments.  The Segment class is a collaborator of Track; the model      *)
(* keeps of a segment what Track reads (start time, bounding box), how     *)
(* many pieces segmentation cuts it into, and the log of the per-segment   *)
(* operations applied to it.                                               *)
(***************************************************************************)
Seg(id, start, box, pieces) ==
    [id |-> id, part |-> 0, start |-> start, box |-> box,
     pieces |-> pieces, ops |-> <<>>]

\* boxes are (minLat, minLon, maxLat, maxLon)
SegmentPool ==
    { Seg(1, 1, <<0, 0, 2, 2>>, 2),
      Seg(2, 1, <<1, 1, 3, 3>>, 1),
      Seg(3, 0, <<5, 5, 6, 6>>, 1) }

TrackNames == {"raw"}
TripNames == {"", "trip"}

RECURSIVE SeqsUpTo(_, _)
\* all lists of at most n distinct elements of S
SeqsUpTo(S, n) ==
    IF n = 0 THEN {<<>>}
    ELSE LET shorter == SeqsUpTo(S, n - 1)
         IN  shorter \cup
             { Append(s, x) : s \in { t \in shorter : Len(t) = n - 1 },
                              x \in S }

Distinct(s) == \A i, j \in 1..Len(s) : i # j => s[i] # s[j]

SegmentLists == { s \in SeqsUpTo(SegmentPool, MaxLen) : Distinct(s) }

Map(Op(_), s) == [i \in 1..Len(s) |-> Op(s[i])]

RECURSIVE Flatten(_)
Flatten(ss) == IF ss = <<>> THEN <<>> ELSE Head(ss) \o Flatten(Tail(ss))

RECURSIVE SumSeq(_)
SumSeq(s) == IF s = <<>> THEN 0 ELSE Head(s) + SumSeq(Tail(s))

(***************************************************************************)
(* Segment operations used by Track                                        *)
(***************************************************************************)
Tag(op, with) == [op |-> op, with |-> with]

Logged(s, op) == [s EXCEPT !.ops = Append(@, Tag(op, 0))]

Seg_getStartTime(s) == s.start
Seg_getBounds(s) == s.box
Seg_smooth(s) == Logged(s, "smooth")
Seg_simplify(s) == Logged(s, "simplify")
Seg_compute_metrics(s) == Logged(s, "compute_metrics")
Seg_removeNoise(s) == Logged(s, "removeNoise")
Seg_preprocess(s) == Logged(s, "preprocess")
Seg_inferTransportationMode(s) == Logged(s, "inferTransportationMode")
Seg_inferLocation(s) == Logged(s, "inferLocation")
Seg_merge_and_fit(s, t) == [s EXCEPT !.ops = Append(@, Tag("merge_and_fit", t.id))]

\* segment.segment(...) followed by Segment(a) for each piece
Seg_segment(s) ==
    [j \in 1..s.pieces |->
        [s EXCEPT !.part = j, !.pieces = 1,
                  !.ops = Append(@, Tag("segment", 0))]]

(***************************************************************************)
(* Track.__init__                                                          *)
(***************************************************************************)
RECURSIVE InsertBeforeEqual(_, _)
\* an unstable insertion: x goes in front of the elements with an equal key
InsertBeforeEqual(sorted, x) ==
    IF sorted = <<>> THEN <<x>>
    ELSE IF Seg_getStartTime(Head(sorted)) < Seg_getStartTime(x)
         THEN <<Head(sorted)>> \o InsertBeforeEqual(Tail(sorted), x)
         ELSE <<x>> \o sorted

RECURSIVE InsertByKey(_, _)
\* x goes behind every element whose key is not larger: the sort is stable
InsertByKey(sorted, x) ==
    IF sorted = <<>> THEN <<x>>
    ELSE IF Seg_getStartTime(Head(sorted)) <= Seg_getStartTime(x)
         THEN <<Head(sorted)>> \o InsertByKey(Tail(sorted), x)
         ELSE <<x>> \o sorted

RECURSIVE SortedFrom(_, _)
SortedFrom(done, rest) ==
    IF rest = <<>> THEN done
    ELSE SortedFrom(InsertByKey(done, Head(rest)), Tail(rest))

\* sorted(segments, key=lambda s: s.getStartTime())
sorted(segs) == SortedFrom(<<>>, segs)

NoRet ==
    [op |-> "none", idx |-> 0, nm |-> "", status |-> "ok", returned |-> "none",
     seg |-> <<>>, score |-> [num |-> 0, den |-> 1], corr |-> <<>>,
     qorder |-> <<>>, table |-> "none", calls |-> <<>>]

\* Track(name, segments) for self, and a second track built from one of
\* the lists otherLists
Construct(otherLists) ==
    /\ input \in SegmentLists
    /\ name \in TrackNames
    /\ segments = sorted(input)
    /\ preprocessed = FALSE
    /\ \E o \in otherLists : other = sorted(o)
    /\ hist = <<>>
    /\ ret = NoRet

InitPair == Construct(SegmentLists)

\* self alone: the argument track plays no part
InitAlone == Construct({<<>>})

(***************************************************************************)
(* Track.segmentAt                                                         *)
(***************************************************************************)
\* Python's list[i]: 0 <= i < n counts from the front, -n <= i < 0 from the
\* back, anything else raises IndexError
\* an index check that rejects every negative index
InRangeFromFront(s, i) == 0 <= i /\ i < Len(s)

PyInRange(s, i) == -Len(s) <= i /\ i < Len(s)
PyGet(s, i) == IF i >= 0 THEN s[i + 1] ELSE s[Len(s) + i + 1]

segmentAt(i) ==
    /\ ret' = IF PyInRange(segments, i)
              THEN [NoRet EXCEPT !.op = "segmentAt", !.idx = i,
                                 !.returned = "segment",
                                 !.seg = <<PyGet(segments, i)>>]
              ELSE [NoRet EXCEPT !.op = "segmentAt", !.idx = i,
                                 !.status = "IndexError", !.returned = "raise"]
    /\ UNCHANGED <<input, name, segments, preprocessed, other, hist>>

(***************************************************************************)
(* Track.generateName                                                      *)
(***************************************************************************)
\* time.strftime(f) of the first point of a segment, by its start time
strftime(t) == IF t = 0 THEN "day0" ELSE IF t = 1 THEN "day1" ELSE "dayN"

DotGpx(d) ==
    IF d = "day0" THEN "day0.gpx" ELSE IF d = "day1" THEN "day1.gpx" ELSE "dayN.gpx"

generateName(segs) ==
    IF Len(segs) > 0 THEN DotGpx(strftime(PyGet(segs, 0).start)) ELSE "EmptyTrack"

(***************************************************************************)
(* Pipeline stages.  A stage takes the track, as the record                *)
(* [name, segments, preprocessed, calls], and returns it changed; calls    *)
(* is the trace of the stages a method has run.                            *)
(***************************************************************************)
Self == [name |-> name, segments |-> segments, preprocessed |-> preprocessed,
         calls |-> <<>>]

Called(t, stage) == Append(t.calls, stage)

removeNoise(t) ==
    [t EXCEPT !.segments = Map(Seg_removeNoise, @),
              !.calls = Called(t, "removeNoise")]

smooth(t) ==
    [t EXCEPT !.segments = Map(Seg_smooth, @),
              !.calls = Called(t, "smooth")]

\* newSegments collects the pieces of every segment, parent after parent
segment(t) ==
    [t EXCEPT !.segments = Flatten(Map(Seg_segment, @)),
              !.calls = Called(t, "segment")]

simplify(t) ==
    [t EXCEPT !.segments = Map(Seg_simplify, @),
              !.calls = Called(t, "simplify")]

compute_metrics(t) ==
    [t EXCEPT !.segments = Map(Seg_compute_metrics, @),
              !.calls = Called(t, "compute_metrics")]

setName(t, nm) == [t EXCEPT !.name = nm, !.calls = Called(t, "name")]

(***************************************************************************)
(* Track.toTrip                                                            *)
(***************************************************************************)
\* lines 184-187: a non-empty argument is replaced by self.name
resolveName(t, nameArg) ==
    IF nameArg # "" THEN t.name ELSE generateName(t.segments)

\* the pipeline with the noise removal of line 189 switched on
toTripWithNoiseRemoval(t, nameArg) ==
    LET nm == resolveName(t, nameArg)
        t0 == removeNoise(t)
        t1 == smooth(t0)
        t2 == compute_metrics(t1)
        t3 == segment(t2)
        t4 == compute_metrics(t3)
        t5 == simplify(t4)
        t6 == compute_metrics(t5)
    IN  setName(t6, nm)

toTripBody(t, nameArg) ==
    LET nm == resolveName(t, nameArg)
        t1 == smooth(t)
        t2 == compute_metrics(t1)
        t3 == segment(t2)
        t4 == compute_metrics(t3)
        t5 == simplify(t4)
        t6 == compute_metrics(t5)
    IN  setName(t6, nm)

Store(t) ==
    /\ name' = t.name
    /\ segments' = t.segments
    /\ preprocessed' = t.preprocessed

toTrip(nameArg) ==
    /\ Len(hist) < MaxOps
    /\ LET t == toTripBody(Self, nameArg)
       IN  /\ Store(t)
           /\ ret' = [NoRet EXCEPT !.op = "toTrip", !.nm = nameArg,
                                   !.returned = "self", !.calls = t.calls]
    /\ hist' = Append(hist, "toTrip")
    /\ UNCHANGED <<input, other>>

(***************************************************************************)
(* Track.preprocess, inferTransportationModes, inferLocation               *)
(***************************************************************************)
\* preprocessing that forgets to raise the flag
preprocessWithoutFlag(t) == [t EXCEPT !.segments = Map(Seg_preprocess, @)]

preprocessBody(t) ==
    [t EXCEPT !.segments = Map(Seg_preprocess, @), !.preprocessed = TRUE]

inferTransportationModesBody(t) ==
    [t EXCEPT !.segments = Map(Seg_inferTransportationMode, @)]

inferLocationBody(t) ==
    [t EXCEPT !.segments = Map(Seg_inferLocation, @)]

preprocess ==
    /\ Len(hist) < MaxOps
    /\ Store(preprocessBody(Self))
    /\ ret' = [NoRet EXCEPT !.op = "preprocess", !.returned = "self"]
    /\ hist' = Append(hist, "preprocess")
    /\ UNCHANGED <<input, other>>

inferTransportationModes ==
    /\ Len(hist) < MaxOps
    /\ Store(inferTransportationModesBody(Self))
    /\ ret' = [NoRet EXCEPT !.op = "inferTransportationModes", !.returned = "self"]
    /\ hist' = Append(hist, "inferTransportationModes")
    /\ UNCHANGED <<input, other>>

inferLocation ==
    /\ Len(hist) < MaxOps
    /\ Store(inferLocationBody(Self))
    /\ ret' = [NoRet EXCEPT !.op = "inferLocation", !.returned = "self"]
    /\ hist' = Append(hist, "inferLocation")
    /\ UNCHANGED <<input, other>>

(***************************************************************************)
(* Pairwise segment similarity (module similarity): a score and a diff for *)
(* a query segment a and an indexed segment b.  It is not symmetric.       *)
(***************************************************************************)
ScoreTables == {"flat", "byCandidate", "mixed"}

score_of(tbl, a, b) ==
    IF tbl = "flat" THEN 1
    ELSE IF tbl = "byCandidate" THEN b.id + b.part
    ELSE (a.id + 2 * b.id) % 3

diff_of(a, b) == [query |-> a.id, cand |-> b.id, part |-> b.part]

segment_similarity(tbl, a, b) == <<score_of(tbl, a, b), diff_of(a, b)>>

(***************************************************************************)
(* The spatial index (rtree.index.Index)                                   *)
(***************************************************************************)
\* closed boxes: boxes that only touch intersect
Intersects(a, b) ==
    /\ a[1] <= b[3] /\ b[1] <= a[3]
    /\ a[2] <= b[4] /\ b[2] <= a[4]

RECURSIVE insertAllSameId(_, _)
\* an index whose counter n is never advanced
insertAllSameId(segs, n) ==
    IF segs = <<>> THEN <<>>
    ELSE <<[id |-> n, bounds |-> Seg_getBounds(Head(segs)), object |-> Head(segs)]>>
         \o insertAllSameId(Tail(segs), n)

RECURSIVE insertAll(_, _)
\* lines 324-327: idx.insert(n, segment.getBounds(), obj=segment); n = n + 1
insertAll(segs, n) ==
    IF segs = <<>> THEN <<>>
    ELSE <<[id |-> n, bounds |-> Seg_getBounds(Head(segs)), object |-> Head(segs)]>>
         \o insertAll(Tail(segs), n + 1)

Hits(idx, box) == { k \in 1..Len(idx) : Intersects(idx[k].bounds, box) }

\* every order in which the entries K of the index can be enumerated
Orderings(K) ==
    { f \in [1..Cardinality(K) -> K] :
        \A i, j \in 1..Cardinality(K) : i # j => f[i] # f[j] }

\* idx.intersection(box, objects=True): the hits, in an order the index chooses
intersection(idx, box) ==
    { [k \in 1..Len(f) |-> idx[f[k]]] : f \in Orderings(Hits(idx, box)) }

RECURSIVE QueryResults(_, _)
\* one query result for every segment of the argument track
QueryResults(idx, qs) ==
    IF qs = <<>> THEN {<<>>}
    ELSE { <<h>> \o t : h \in intersection(idx, Seg_getBounds(Head(qs))),
                        t \in QueryResults(idx, Tail(qs)) }

(***************************************************************************)
(* Track.similarity                                                        *)
(***************************************************************************)
RECURSIVE maxOf(_)
maxOf(s) ==
    IF Len(s) = 1 THEN s[1]
    ELSE LET m == maxOf(Tail(s)) IN IF s[1] >= m THEN s[1] ELSE m

\* the last position (0-based) that holds the maximum
argmaxLast(s) ==
    CHOOSE k \in 0..(Len(s) - 1) :
        /\ s[k + 1] = maxOf(s)
        /\ \A j \in (k + 1)..(Len(s) - 1) : s[j + 1] # maxOf(s)

\* np.argmax: the first position (0-based) that holds the maximum
argmax(s) ==
    CHOOSE k \in 0..(Len(s) - 1) :
        /\ s[k + 1] = maxOf(s)
        /\ \A j \in 0..(k - 1) : s[j + 1] # maxOf(s)

\* a mean over the matched entries only
meanOfPositive(s) ==
    [num |-> SumSeq(s), den |-> Cardinality({k \in 1..Len(s) : s[k] > 0})]

\* np.mean: sum / count as the fraction num/den; 0/0 is nan
mean(s) == [num |-> SumSeq(s), den |-> Len(s)]

\* lines 334-349, for the i-th (0-based) segment of the argument track
bestOf(tbl, i, seg, query) ==
    LET res_siml == [k \in 1..Len(query) |->
                        segment_similarity(tbl, seg, query[k].object)[1]]
        res_diff == [k \in 1..Len(query) |->
                        <<query[k].id, i,
                          segment_similarity(tbl, seg, query[k].object)[2]>>]
    IN  IF Len(res_siml) > 0
        THEN [siml |-> maxOf(res_siml), diff |-> res_diff[argmax(res_siml) + 1]]
        ELSE [siml |-> 0, diff |-> <<>>]

similarityBody(selfSegs, trackSegs, tbl, queries) ==
    LET best == [k \in 1..Len(trackSegs) |->
                    bestOf(tbl, k - 1, trackSegs[k], queries[k])]
        final_siml == [k \in 1..Len(trackSegs) |-> best[k].siml]
        final_diff == [k \in 1..Len(trackSegs) |-> best[k].diff]
    IN  [score |-> mean(final_siml), corr |-> final_diff]

similarity(tbl) ==
    LET idx == insertAll(segments, 0)
    IN  \E queries \in QueryResults(idx, other) :
            LET r == similarityBody(segments, other, tbl, queries)
            IN  ret' = [NoRet EXCEPT
                          !.op = "similarity", !.returned = "tuple",
                          !.score = r.score, !.corr = r.corr, !.table = tbl,
                          !.qorder = [k \in 1..Len(queries) |->
                                        [j \in 1..Len(queries[k]) |->
                                            queries[k][j].id]]]
    /\ UNCHANGED <<input, name, segments, preprocessed, other, hist>>

(***************************************************************************)
(* Track.merge_and_fit                                                     *)
(***************************************************************************)
PySet(s, i, v) ==
    IF i >= 0 THEN [s EXCEPT ![i + 1] = v] ELSE [s EXCEPT ![Len(s) + i + 1] = v]

\* for (selfSegIndex, trackSegIndex, diffs) in ff: an entry that is no
\* triple cannot be unpacked and raises ValueError
Unpacks(e) == Len(e) = 3

RECURSIVE mergeLoop(_, _, _)
mergeLoop(segs, trackSegs, ff) ==
    IF ff = <<>> THEN [segments |-> segs, status |-> "ok"]
    ELSE LET e == Head(ff)
         IN  IF ~Unpacks(e)
             THEN [segments |-> segs, status |-> "ValueError"]
             ELSE IF ~PyInRange(segs, e[1]) \/ ~PyInRange(trackSegs, e[2])
             THEN [segments |-> segs, status |-> "IndexError"]
             ELSE mergeLoop(
                    PySet(segs, e[1],
                          Seg_merge_and_fit(PyGet(segs, e[1]), PyGet(trackSegs, e[2]))),
                    trackSegs, Tail(ff))

\* called with the correspondences the preceding similarity call returned
merge_and_fit ==
    /\ Len(hist) < MaxOps
    /\ ret.op = "similarity"
    /\ LET r == mergeLoop(segments, other, ret.corr)
       IN  /\ segments' = r.segments
           /\ ret' = [NoRet EXCEPT
                        !.op = "merge_and_fit", !.status = r.status,
                        !.corr = ret.corr,
                        !.returned = IF r.status = "ok" THEN "self" ELSE "raise"]
    /\ hist' = Append(hist, "merge_and_fit")
    /\ UNCHANGED <<input, name, preprocessed, other>>

(***************************************************************************)
(* Specifications                                                          *)
(***************************************************************************)
\* construction and indexed access
NextTrack == \E i \in -(MaxLen + 3)..(MaxLen + 3) : segmentAt(i)

SpecTrack == InitAlone /\ [][NextTrack]_vars

\* the transformation pipeline and the mapped stages
NextPipeline ==
    \/ \E nameArg \in TripNames : toTrip(nameArg)
    \/ preprocess
    \/ inferTransportationModes
    \/ inferLocation

SpecPipeline == InitAlone /\ [][NextPipeline]_vars

\* comparison of two tracks and the merge that consumes its result
NextSimilarity ==
    \/ \E tbl \in ScoreTables : similarity(tbl)
    \/ merge_and_fit

SpecSimilarity == InitPair /\ [][NextSimilarity]_vars
(***************************************************************************)
(* Properties of construction and indexed access (SpecTrack)               *)
(***************************************************************************)
\* position of x in the list s (the elements of s are distinct)
PosIn(s, x) == CHOOSE k \in 1..Len(s) : s[k] = x

Elems(s) == { s[k] : k \in 1..Len(s) }

\* C8: right after construction, segments is a permutation of the input
\* list in ascending order of start time, segments with equal start times
\* stand in their input order, and preprocessed is false.
C8_ConstructionSortsStably ==
    hist = <<>> =>
        /\ Len(segments) = Len(input)
        /\ Elems(segments) = Elems(input)
        /\ \A i, j \in 1..Len(segments) :
              i < j =>
                /\ segments[i].start <= segments[j].start
                /\ segments[i].start = segments[j].start
                      => PosIn(input, segments[i]) < PosIn(input, segments[j])
        /\ preprocessed = FALSE

\* two segments with the same start time, handed over in falling id order
\* and kept in that order
C8_Witness ==
    /\ hist = <<>>
    /\ Len(input) = 2
    /\ input[1].start = input[2].start
    /\ input[1].id > input[2].id
    /\ segments = <<input[1], input[2]>>

\* C9 as stated: segmentAt(i) returns the segment at position i when
\* 0 <= i < n and fails with an out-of-range error for every other integer
\* i, negative i included.
C9_NegativeIndexFails ==
    ret.op = "segmentAt" =>
        IF 0 <= ret.idx /\ ret.idx < Len(segments)
        THEN ret.status = "ok" /\ ret.seg = <<segments[ret.idx + 1]>>
        ELSE ret.status = "IndexError"

\* C9 amended: segmentAt(i) returns the segment at position i when
\* 0 <= i < n, the segment at position n + i when -n <= i < 0, and fails
\* with an out-of-range error for every other integer i.
C9_SegmentAtIndexing ==
    ret.op = "segmentAt" =>
        LET n == Len(segments)
        IN  IF 0 <= ret.idx /\ ret.idx < n
            THEN ret.status = "ok" /\ ret.seg = <<segments[ret.idx + 1]>>
            ELSE IF -n <= ret.idx /\ ret.idx < 0
            THEN ret.status = "ok" /\ ret.seg = <<segments[n + ret.idx + 1]>>
            ELSE ret.status = "IndexError" /\ ret.seg = <<>>

\* a negative index that returned a segment other than the first
C9_Witness ==
    /\ ret.op = "segmentAt"
    /\ ret.idx = -1
    /\ Len(segments) >= 2
    /\ ret.status = "ok"
    /\ ret.seg = <<segments[Len(segments)]>>

(***************************************************************************)
(* Properties of the pipeline and the mapped stages (SpecPipeline)         *)
(***************************************************************************)
CanonicalStages ==
    <<"smooth", "compute_metrics", "segment", "compute_metrics",
      "simplify", "compute_metrics">>

\* the last n entries of the operation log of segment s, by name
LastOps(s, n) ==
    IF Len(s.ops) < n THEN <<>>
    ELSE [k \in 1..n |-> s.ops[Len(s.ops) - n + k].op]

C6_ToTripAssignsGivenName ==
    [][ret'.op = "toTrip" =>
          name' = IF ret'.nm # "" THEN ret'.nm ELSE generateName(segments)]_vars

PerSegment(stage, s) ==
    IF stage = "preprocess" THEN Seg_preprocess(s)
    ELSE IF stage = "inferTransportationModes" THEN Seg_inferTransportationMode(s)
    ELSE Seg_inferLocation(s)

RECURSIVE ApplyStages(_, _)
ApplyStages(stages, s) ==
    IF stages = <<>> THEN s
    ELSE ApplyStages(Tail(stages), PerSegment(Head(stages), s))

MappedStages == {"preprocess", "inferTransportationModes", "inferLocation"}

Candidates(i) ==
    { j \in 1..Len(segments) : Intersects(segments[j].box, other[i].box) }

\* the score of self segment j (1-based) against the i-th query segment
PairScore(i, j) == score_of(ret.table, other[i], segments[j])

\* the best score of the i-th query segment, 0 if nothing matches it
BestScore(i) ==
    IF Candidates(i) = {} THEN 0
    ELSE CHOOSE m \in { PairScore(i, j) : j \in Candidates(i) } :
            \A j \in Candidates(i) : PairScore(i, j) <= m

\* C1: the correspondences have one entry per segment of the argument
\* track; entry i is the empty marker exactly if no self segment's box
\* meets the box of the i-th query segment, and else a triple
\* (selfIndex, i, diff) whose selfIndex is the position of a self segment
\* whose box meets it.
C1_OneEntryPerQuerySegment ==
    ret.op = "similarity" =>
        /\ Len(ret.corr) = Len(other)
        /\ \A i \in 1..Len(other) :
              LET e == ret.corr[i]
              IN  /\ e = <<>> <=> Candidates(i) = {}
                  /\ Candidates(i) # {} =>
                        /\ Len(e) = 3
                        /\ e[2] = i - 1
                        /\ e[1] + 1 \in Candidates(i)

\* a comparison with a matched and an unmatched query segment, the match
\* being a self segment that is not the first
C1_Witness ==
    /\ ret.op = "similarity"
    /\ \E i, j \in 1..Len(ret.corr) :
          /\ ret.corr[i] = <<>>
          /\ ret.corr[j] # <<>>
          /\ ret.corr[j][1] > 0

\* C2: for a query segment with candidates the triple names the candidate
\* with the maximum pairwise score, the first one in the order of the
\* intersection query if several share it, and carries the diff the scorer
\* returned for that candidate.
C2_BestCandidateFirstOnTies ==
    ret.op = "similarity" =>
        \A i \in 1..Len(other) :
            Candidates(i) # {} =>
                LET e == ret.corr[i]
                    q == ret.qorder[i]
                IN  \E k \in 1..Len(q) :
                        /\ q[k] = e[1]
                        /\ \A j \in 1..Len(q) :
                              PairScore(i, q[j] + 1) <= PairScore(i, q[k] + 1)
                        /\ \A j \in 1..(k - 1) :
                              PairScore(i, q[j] + 1) < PairScore(i, q[k] + 1)
                        /\ e[3] = diff_of(other[i], segments[q[k] + 1])

\* two candidates with the same score, enumerated by the index in the
\* order opposite to their positions: the one enumerated first is named
C2_Witness ==
    /\ ret.op = "similarity"
    /\ \E i \in 1..Len(other) :
          /\ Len(ret.qorder[i]) >= 2
          /\ ret.qorder[i][1] > ret.qorder[i][2]
          /\ PairScore(i, ret.qorder[i][1] + 1) = PairScore(i, ret.qorder[i][2] + 1)
          /\ BestScore(i) = PairScore(i, ret.qorder[i][1] + 1)
          /\ ret.corr[i][1] = ret.qorder[i][1]

RECURSIVE SumBest(_)
\* the sum of the best scores of the first n query segments
SumBest(n) == IF n = 0 THEN 0 ELSE BestScore(n) + SumBest(n - 1)

\* C3: with at least one segment in the argument track, the overall score
\* is the sum of the per-query best scores (0 for an unmatched segment)
\* divided by the number of query segments.
C3_ScoreIsMeanOfBest ==
    (ret.op = "similarity" /\ Len(other) >= 1) =>
        /\ ret.score.den # 0
        /\ ret.score.num * Len(other) = SumBest(Len(other)) * ret.score.den

\* two query segments, one of them unmatched, and a positive sum
C3_Witness ==
    /\ ret.op = "similarity"
    /\ Len(other) = 2
    /\ \E i \in 1..2 : Candidates(i) = {}
    /\ ret.score.num > 0
    /\ ret.score.den = 2

\* C4: with no segment in the argument track, similarity returns the
\* overall score 0 and no correspondence, as a normal return value.
C4_EmptyQueryScoresZero ==
    (ret.op = "similarity" /\ Len(other) = 0) =>
        /\ ret.status = "ok"
        /\ ret.score.den # 0
        /\ ret.score.num = 0
        /\ ret.corr = <<>>

\* the self positions (1-based) the triples of ff name
Named(ff) == { ff[k][1] + 1 : k \in { m \in 1..Len(ff) : Len(ff[m]) = 3 } }

\* the argument segments merged into self position j, in the order of ff
RECURSIVE MergedInto(_, _)
MergedInto(ff, j) ==
    IF ff = <<>> THEN <<>>
    ELSE IF Len(Head(ff)) = 3 /\ Head(ff)[1] + 1 = j
         THEN <<Tag("merge_and_fit", other[Head(ff)[2] + 1].id)>> \o MergedInto(Tail(ff), j)
         ELSE MergedInto(Tail(ff), j)

\* C7: merge_and_fit with the correspondences similarity returned completes
\* without error also when some query segments are unmatched, merges the
\* pairs the triples name and no others, leaves the self segments no triple
\* names unchanged, and returns self.
C7_MergeAcceptsSimilarityOutput ==
    [][ret'.op = "merge_and_fit" =>
          /\ ret'.status = "ok"
          /\ ret'.returned = "self"
          /\ Len(segments') = Len(segments)
          /\ \A j \in 1..Len(segments) :
                segments'[j] =
                    [segments[j] EXCEPT !.ops = @ \o MergedInto(ret.corr, j)]]_vars

\* what the code does: merge_and_fit merges the pairs of the triples that
\* come before the first empty marker, and raises ValueError at the marker
C7_MergeStopsAtEmptyMarker ==
    [][ret'.op = "merge_and_fit" =>
          LET ff == ret.corr
              stop == { k \in 1..Len(ff) : ff[k] = <<>> }
              done == IF stop = {} THEN ff
                      ELSE SubSeq(ff, 1, (CHOOSE k \in stop : \A m \in stop : k <= m) - 1)
          IN  /\ ret'.status = IF stop = {} THEN "ok" ELSE "ValueError"
              /\ \A j \in 1..Len(segments) :
                    segments'[j] =
                        [segments[j] EXCEPT !.ops = @ \o MergedInto(done, j)]]_vars
====
